---- MODULE Spec2Model ----
(***************************************************************************)
(* Model of verifyYoutubeLinks.py: the row loop of process_csv, the pure   *)
(* reconciliation function check_and_update_row, the two collaborators     *)
(* (query_youtube_oembed, check_video_playback) and the exit status set by *)
(* the __main__ block.                                                     *)
(*                                                                         *)
(* Strings are sequences of symbols.  A symbol is either one of the two    *)
(* characters the csv dialect treats specially (the delimiter "," and the  *)
(* quote character) or a block of ordinary characters ("a", "ERROR",       *)
(* "URL", ...).  Python's None is a value of its own, NoneVal.             *)
(***************************************************************************)
EXTENDS Integers, Sequences, FiniteSets, TLC

\* ------------------------------------------------------------------ bounds
MaxRows == 2
MaxStartRow == 2
MaxEndRow == 2

\* ------------------------------------------------------------- string data
Comma == ","
Quote == "\""
NoneVal == <<"<None>">>
Empty == <<>>
ERROR == <<"ERROR">>

ColCard == "Card#"
ColUrl == "URL"
ColTitle == "Youtube-Title"
ColHash == "Hashed Info"

\* titles and authors the metadata endpoint may return
T1 == <<"a">>
T2 == <<"a", ",", "b">>
T3 == <<"\"", "a">>
A1 == <<"x">>

U1 == <<"u1">>
U2 == <<"u2">>

\* ------------------------------------------------- hashlib / str.encode
\* hashlib.sha256(s.encode()).hexdigest(): a digest is a run of hex digits
\* (no csv-special character) that is determined by the whole of s and, by
\* collision resistance, determines it.
HexOf(c) == IF c = Comma THEN "2c" ELSE IF c = Quote THEN "22" ELSE c

hexdigest(s) == <<"sha256">> \o [i \in 1..Len(s) |-> HexOf(s[i])]

\* ------------------------------------------------------------- csv module
\* csv.writer, excel dialect, QUOTE_MINIMAL: None is written as the empty
\* string; a field holding the delimiter or the quote character is quoted
\* and its quote characters are doubled.
RECURSIVE DoubleQuotes(_)
DoubleQuotes(s) ==
    IF s = <<>> THEN <<>>
    ELSE (IF Head(s) = Quote THEN <<Quote, Quote>> ELSE <<Head(s)>>)
         \o DoubleQuotes(Tail(s))

NeedsQuoting(s) == \E i \in 1..Len(s) : s[i] \in {Comma, Quote}

CsvWriteField(v) ==
    IF v = NoneVal THEN <<>>
    ELSE IF NeedsQuoting(v) THEN <<Quote>> \o DoubleQuotes(v) \o <<Quote>>
    ELSE v

RECURSIVE CsvJoin(_)
CsvJoin(fields) ==
    IF fields = <<>> THEN <<>>
    ELSE IF Len(fields) = 1 THEN CsvWriteField(fields[1])
    ELSE CsvWriteField(Head(fields)) \o <<Comma>> \o CsvJoin(Tail(fields))

\* csv.reader on one record: the parser's states are those of _csv.c
\* ("start" START_FIELD, "field" IN_FIELD, "quoted" IN_QUOTED_FIELD,
\* "qq" QUOTE_IN_QUOTED_FIELD); an empty record yields no field at all.
RECURSIVE CsvParse(_, _, _, _, _)
CsvParse(s, i, st, cur, fields) ==
    IF i > Len(s) THEN Append(fields, cur)
    ELSE LET c == s[i] IN
        IF st = "start" THEN
            IF c = Quote THEN CsvParse(s, i + 1, "quoted", <<>>, fields)
            ELSE IF c = Comma THEN CsvParse(s, i + 1, "start", <<>>, Append(fields, <<>>))
            ELSE CsvParse(s, i + 1, "field", <<c>>, fields)
        ELSE IF st = "field" THEN
            IF c = Comma THEN CsvParse(s, i + 1, "start", <<>>, Append(fields, cur))
            ELSE CsvParse(s, i + 1, "field", Append(cur, c), fields)
        ELSE IF st = "quoted" THEN
            IF c = Quote THEN CsvParse(s, i + 1, "qq", cur, fields)
            ELSE CsvParse(s, i + 1, "quoted", Append(cur, c), fields)
        ELSE \* "qq"
            IF c = Quote THEN CsvParse(s, i + 1, "quoted", Append(cur, Quote), fields)
            ELSE IF c = Comma THEN CsvParse(s, i + 1, "start", <<>>, Append(fields, cur))
            ELSE CsvParse(s, i + 1, "field", Append(cur, c), fields)

CsvReadRecord(line) == IF line = <<>> THEN <<>> ELSE CsvParse(line, 1, "start", <<>>, <<>>)

\* csv.DictReader: the header record gives the field names
HeaderNames(line) == LET f == CsvReadRecord(line) IN [i \in 1..Len(f) |-> f[i][1]]

\* csv.DictReader.__next__: dict(zip(fieldnames, record)); a record shorter
\* than the field names is padded with restval = None
IndexOf(names, c) == CHOOSE i \in 1..Len(names) : names[i] = c

DictRow(names, line) ==
    LET f == CsvReadRecord(line) IN
    [c \in {names[i] : i \in 1..Len(names)} |->
        IF IndexOf(names, c) <= Len(f) THEN f[IndexOf(names, c)] ELSE NoneVal]

\* csv.DictWriter.writerow: the row's values in the order of fieldnames; a
\* key the row lacks is written as restval = ""
DictWriteRow(names, r) ==
    CsvJoin([i \in 1..Len(names) |->
                IF names[i] \in DOMAIN r THEN r[names[i]] ELSE <<>>])

\* csv.DictWriter.writeheader
DictWriteHeader(names) == CsvJoin([i \in 1..Len(names) |-> <<names[i]>>])

\* dict.get(key, default)
Get(r, c, default) == IF c \in DOMAIN r THEN r[c] ELSE default

\* row[key] = value
Put(r, c, v) == [k \in DOMAIN r \cup {c} |-> IF k = c THEN v ELSE r[k]]

\* ---------------------------------------------------------------- inputs
\* end_row is <<>> for None (the argparse default) and <<n>> for the integer n
NoEnd == <<>>

\* Python truthiness of end_row: None and 0 are both false
Truthy(e) == e # NoEnd /\ e[1] # 0

HeaderPlain == <<ColCard, ColUrl>>
HeaderFull == <<ColCard, ColUrl, ColTitle, ColHash>>

\* the stored part of a data row: URL, and for a table that has the
\* verification columns the stored title and digest
PlainKinds == { <<U1>>, <<Empty>> }
FullKinds == { <<U1, T1, hexdigest(T1 \o A1)>>,
               <<U2, T2, hexdigest(T1 \o A1)>>,
               <<Empty, Empty, Empty>> }

CardOf(i) == <<"card", ToString(i)>>

\* an input file: the header record followed by n data records
FileOf(header, kinds) ==
    <<DictWriteHeader(header)>> \o
    [i \in 1..Len(kinds) |-> CsvJoin(<<CardOf(i)>> \o kinds[i])]

RECURSIVE SeqsUpTo(_, _)
SeqsUpTo(S, n) ==
    IF n = 0 THEN { <<>> }
    ELSE LET shorter == SeqsUpTo(S, n - 1) IN
         shorter \cup { Append(q, x) : q \in shorter, x \in S }

InputFiles ==
    { FileOf(HeaderPlain, k) : k \in SeqsUpTo(PlainKinds, MaxRows) } \cup
    { FileOf(HeaderFull, k) : k \in SeqsUpTo(FullKinds, MaxRows) }

StartRows == 1..MaxStartRow
EndRows == { NoEnd } \cup { <<n>> : n \in 0..MaxEndRow }

\* results of one call of the oEmbed endpoint: a payload with title and
\* author_name ("ok"), a network error or non-2xx response ("request"), a
\* body that is not JSON ("badjson"), a JSON body without the title or
\* author_name key ("nofield")
Ok(t, a) == [kind |-> "ok", title |-> t, author |-> a]
Failure(k) == [kind |-> k, title |-> Empty, author |-> Empty]

OkResults == { Ok(T1, A1), Ok(T2, A1), Ok(T3, A1) }
Results == OkResults \cup { Failure("request"), Failure("badjson"), Failure("nofield") }

\* what the page shows: no error element ("OK") or the element's text
Statuses == { <<"OK">>, <<"Video unavailable">> }

\* ----------------------------------------------------------------- state
VARIABLES
    infile,              \* the input file: header record, then data records
    check_only, output_file, browser_automation, start_row, end_row,
    pc,                  \* position in __main__ / process_csv
    mismatches, matches, current_row_number,
    fieldnames,          \* reader.fieldnames (the list the writer shares)
    row,                 \* the loop variable
    writer,              \* "unbound" | "None" | "writer"
    outfile,             \* "unbound" | "open" | "closed"
    outlines,            \* records written to the output file
    driver,              \* "unbound" | "running" | "quit"
    playback_status,
    exit_status, exception,
    results,             \* history: the resolver's result for each admitted row
    admitted,            \* history: the sequence numbers of the admitted rows
    probed,              \* history: the sequence numbers handed to the prober
    closes, quits,       \* history: calls of outfile.close() and driver.quit()
    cau,                 \* history: the last call of check_and_update_row
    run, oracle          \* second run on the first run's output (idempotence)

vars == << infile, check_only, output_file, browser_automation, start_row, end_row,
           pc, mismatches, matches, current_row_number, fieldnames, row, writer,
           outfile, outlines, driver, playback_status, exit_status, exception,
           results, admitted, probed, closes, quits, cau, run, oracle >>

args == << check_only, output_file, browser_automation, start_row, end_row >>
counters == << mismatches, matches >>
resources == << writer, outfile, driver, closes, quits >>
history == << results, admitted, probed, cau >>

NoRow == [c \in {} |-> Empty]
NoCall == [called |-> FALSE, row_in |-> NoRow, title |-> Empty, hashed |-> Empty,
           check_mode |-> FALSE, updated |-> FALSE, mismatch_found |-> FALSE,
           row_out |-> NoRow]

\* -------------------------------------------------- check_and_update_row
\* variants of check_and_update_row with one slip each
check_and_update_row_ignoring_mode(r, current_title, current_hashed_info, check_mode) ==
    LET mismatch_found == Get(r, ColTitle, Empty) # current_title
                          \/ Get(r, ColHash, Empty) # current_hashed_info
    IN [updated |-> mismatch_found,
        mismatch_found |-> mismatch_found,
        row |-> IF mismatch_found
                THEN Put(Put(r, ColTitle, current_title), ColHash, current_hashed_info)
                ELSE r]

check_and_update_row_both_differ(r, current_title, current_hashed_info, check_mode) ==
    LET mismatch_found == Get(r, ColTitle, Empty) # current_title
                          /\ Get(r, ColHash, Empty) # current_hashed_info
        updated == mismatch_found /\ ~check_mode
    IN [updated |-> updated,
        mismatch_found |-> mismatch_found,
        row |-> IF updated
                THEN Put(Put(r, ColTitle, current_title), ColHash, current_hashed_info)
                ELSE r]

check_and_update_row_title_only(r, current_title, current_hashed_info, check_mode) ==
    LET mismatch_found == Get(r, ColTitle, Empty) # current_title
                          \/ Get(r, ColHash, Empty) # current_hashed_info
        updated == mismatch_found /\ ~check_mode
    IN [updated |-> updated,
        mismatch_found |-> mismatch_found,
        row |-> IF updated THEN Put(r, ColTitle, current_title) ELSE r]

\* returns (updated, mismatch_found) and the row as the call leaves it
check_and_update_row(r, current_title, current_hashed_info, check_mode) ==
    LET stored_title == Get(r, ColTitle, Empty)
        stored_hashed_info == Get(r, ColHash, Empty)
        mismatch_found == stored_title # current_title
                          \/ stored_hashed_info # current_hashed_info
        updated == mismatch_found /\ ~check_mode
    IN [updated |-> updated,
        mismatch_found |-> mismatch_found,
        row |-> IF updated
                THEN Put(Put(r, ColTitle, current_title), ColHash, current_hashed_info)
                ELSE r]

\* -------------------------------------------------- query_youtube_oembed
\* (title, digest, error) for a result the function returns from; the
\* except clause names requests.RequestException only
oembed_title(res) == IF res.kind = "ok" THEN res.title ELSE NoneVal
oembed_hashed_info(res) ==
    IF res.kind = "ok" THEN hexdigest(res.title \o res.author) ELSE NoneVal
oembed_error(res) == res.kind # "ok"

\* a missing key raises KeyError, which the except clause does not name
oembed_raises_always(res) == res.kind = "nofield"
\* response.json() on a non-JSON body raises requests' JSONDecodeError, a
\* RequestException from requests 2.27 on and a plain ValueError before
oembed_raises_maybe(res) == res.kind = "badjson"

\* ------------------------------------------------------------------ Init
NoOracle == [u \in {} |-> Failure("request")]

Fresh ==
    /\ pc = "main"
    /\ mismatches = 0 /\ matches = 0 /\ current_row_number = 0
    /\ fieldnames = <<>>
    /\ row = NoRow
    /\ writer = "unbound" /\ outfile = "unbound" /\ outlines = <<>>
    /\ driver = "unbound"
    /\ playback_status = Empty
    /\ exit_status = 0 /\ exception = ""
    /\ results = <<>> /\ admitted = <<>> /\ probed = <<>>
    /\ closes = 0 /\ quits = 0
    /\ cau = NoCall

Init ==
    /\ infile \in InputFiles
    /\ check_only \in BOOLEAN
    /\ output_file \in BOOLEAN
    /\ browser_automation \in BOOLEAN
    /\ start_row \in StartRows
    /\ end_row \in EndRows
    /\ run = 1 /\ oracle = NoOracle
    /\ Fresh

\* an exception nothing catches: the interpreter prints the traceback and
\* exits with status 1; no statement after the raising one runs
Raise(name) ==
    /\ pc' = "exited"
    /\ exit_status' = 1
    /\ exception' = name

Names(seq) == { seq[i] : i \in 1..Len(seq) }

AppendIfAbsent(names, c) == IF c \in Names(names) THEN names ELSE Append(names, c)

\* ------------------------------------------------------------- process_csv
\* lines 57-75: counters, reader, and the writer when one is wanted
Setup ==
    /\ pc = "main"
    /\ LET names == HeaderNames(infile[1])
           opens == ~check_only /\ output_file
           appended == AppendIfAbsent(AppendIfAbsent(names, ColTitle), ColHash)
       IN /\ fieldnames' = (IF opens THEN appended ELSE names)
          /\ outfile' = (IF opens THEN "open" ELSE outfile)
          /\ outlines' = (IF opens THEN <<DictWriteHeader(appended)>> ELSE outlines)
          /\ writer' = (IF opens THEN "writer" ELSE "None")
    /\ mismatches' = 0 /\ matches' = 0 /\ current_row_number' = 0
    /\ pc' = (IF browser_automation THEN "driver" ELSE "loop")
    /\ UNCHANGED << infile, args, row, driver, playback_status, exit_status,
                    exception, history, closes, quits, run, oracle >>

\* lines 77-81: webdriver.Chrome(...) returns a session
StartDriver ==
    /\ pc = "driver"
    /\ driver' = "running"
    /\ pc' = "loop"
    /\ UNCHANGED << infile, args, counters, current_row_number, fieldnames, row,
                    writer, outfile, outlines, playback_status, exit_status,
                    exception, history, closes, quits, run, oracle >>

\* lines 77-81: webdriver.Chrome(...) raises (no browser, no driver binary)
StartDriverFails ==
    /\ pc = "driver"
    /\ Raise("WebDriverException")
    /\ UNCHANGED << infile, args, counters, current_row_number, fieldnames, row,
                    writer, outfile, outlines, driver, playback_status,
                    history, closes, quits, run, oracle >>

\* line 85: the condition under which the row is skipped
OutOfRange(n, first, last) == n < first \/ (Truthy(last) /\ n > last[1])

\* lines 83-90: the reader yields the next record
NextRow ==
    /\ pc = "loop"
    /\ current_row_number < Len(infile) - 1
    /\ LET n == current_row_number + 1 IN
        /\ current_row_number' = n
        /\ row' = DictRow(fieldnames, infile[n + 1])
        /\ IF OutOfRange(n, start_row, end_row)
           THEN /\ pc' = "loop"
                /\ UNCHANGED admitted
           ELSE /\ pc' = (IF browser_automation THEN "probe" ELSE "resolve")
                /\ admitted' = Append(admitted, n)
    /\ UNCHANGED << infile, args, counters, fieldnames, resources, outlines,
                    playback_status, exit_status, exception, results, probed,
                    cau, run, oracle >>

\* variant: a status other than "OK" marks the row
RowAfterProbe_marking(r, status) ==
    IF status # <<"OK">> THEN Put(r, ColTitle, ERROR) ELSE r

\* lines 96-97: a status other than "OK" is printed; the row is not touched
RowAfterProbe(r, status) == r

\* lines 92-97 and check_video_playback: the page loads and the status comes back
Probe(status) ==
    /\ pc = "probe"
    /\ playback_status' = status
    /\ probed' = Append(probed, current_row_number)
    /\ row' = RowAfterProbe(row, status)
    /\ pc' = "resolve"
    /\ UNCHANGED << infile, args, counters, current_row_number, fieldnames,
                    resources, outlines, exit_status, exception, results,
                    admitted, cau, run, oracle >>

\* line 30: driver.get raises (an empty or malformed URL, a dead session);
\* check_video_playback catches NoSuchElementException only
ProbeRaises ==
    /\ pc = "probe"
    /\ probed' = Append(probed, current_row_number)
    /\ Raise("WebDriverException")
    /\ UNCHANGED << infile, args, counters, current_row_number, fieldnames, row,
                    resources, outlines, playback_status, results, admitted,
                    cau, run, oracle >>

\* variant: the mismatch counter goes up for every resolved row
CountMismatch_always(n, mismatch_found) == n + 1

\* lines 108-112: one of the two counters goes up by one
CountMismatch(n, mismatch_found) == IF mismatch_found THEN n + 1 ELSE n
CountMatch(n, mismatch_found) == IF mismatch_found THEN n ELSE n + 1

\* line 90: video_url = row.get("URL", "")
video_url == Get(row, ColUrl, Empty)

\* lines 100-112: query_youtube_oembed returns and the row is reconciled
ResolveReturns(res) ==
    /\ pc = "resolve"
    /\ ~oembed_raises_always(res)
    /\ results' = Append(results, res)
    /\ IF oembed_error(res)
       THEN /\ row' = Put(row, ColTitle, ERROR)
            /\ UNCHANGED << counters, cau >>
       ELSE LET ret == check_and_update_row(row, oembed_title(res),
                                            oembed_hashed_info(res), check_only)
            IN /\ row' = ret.row
               /\ mismatches' = CountMismatch(mismatches, ret.mismatch_found)
               /\ matches' = CountMatch(matches, ret.mismatch_found)
               /\ cau' = [called |-> TRUE, row_in |-> row,
                          title |-> oembed_title(res),
                          hashed |-> oembed_hashed_info(res),
                          check_mode |-> check_only,
                          updated |-> ret.updated,
                          mismatch_found |-> ret.mismatch_found,
                          row_out |-> ret.row]
    /\ pc' = "write"
    /\ UNCHANGED << infile, args, current_row_number, fieldnames, resources,
                    outlines, playback_status, exit_status, exception,
                    admitted, probed, run, oracle >>

\* lines 18-21: an exception the except clause of query_youtube_oembed does
\* not name leaves process_csv
ResolveRaises(res) ==
    /\ pc = "resolve"
    /\ oembed_raises_always(res) \/ oembed_raises_maybe(res)
    /\ results' = Append(results, res)
    /\ Raise(IF res.kind = "nofield" THEN "KeyError" ELSE "JSONDecodeError")
    /\ UNCHANGED << infile, args, counters, current_row_number, fieldnames, row,
                    resources, outlines, playback_status, admitted, probed,
                    cau, run, oracle >>

\* lines 114-122: the row is written when a writer was made
WriteRow ==
    /\ pc = "write"
    /\ outlines' = (IF output_file /\ ~check_only
                    THEN Append(outlines, DictWriteRow(fieldnames, row))
                    ELSE outlines)
    /\ pc' = "loop"
    /\ UNCHANGED << infile, args, counters, current_row_number, fieldnames, row,
                    resources, playback_status, exit_status, exception,
                    history, run, oracle >>

\* lines 124-132: the reader is exhausted; summary, close, quit, return
Finish ==
    /\ pc = "loop"
    /\ current_row_number = Len(infile) - 1
    /\ IF output_file /\ outfile = "unbound"
       THEN /\ Raise("UnboundLocalError")
            /\ UNCHANGED << outfile, closes, driver, quits >>
       ELSE /\ outfile' = (IF output_file THEN "closed" ELSE outfile)
            /\ closes' = (IF output_file THEN closes + 1 ELSE closes)
            /\ driver' = (IF browser_automation THEN "quit" ELSE driver)
            /\ quits' = (IF browser_automation THEN quits + 1 ELSE quits)
            /\ pc' = "returned"
            /\ UNCHANGED << exit_status, exception >>
    /\ UNCHANGED << infile, args, counters, current_row_number, fieldnames, row,
                    writer, outlines, playback_status, history, run, oracle >>

\* lines 146-148: the exit status
MainExit ==
    /\ pc = "returned"
    /\ exit_status' = (IF check_only /\ mismatches > 0 THEN 1 ELSE 0)
    /\ pc' = "exited"
    /\ UNCHANGED << infile, args, counters, current_row_number, fieldnames, row,
                    resources, outlines, playback_status, exception, history,
                    run, oracle >>

Next ==
    \/ Setup
    \/ StartDriver
    \/ StartDriverFails
    \/ NextRow
    \/ \E status \in Statuses : Probe(status)
    \/ ProbeRaises
    \/ \E res \in Results : ResolveReturns(res)
    \/ \E res \in Results : ResolveRaises(res)
    \/ WriteRow
    \/ Finish
    \/ MainExit

Spec == Init /\ [][Next]_vars

\* ------------------------------------------------- a run on a run's output
\* The endpoint answers by URL and gives the same answer in both runs; it
\* rejects the empty URL.
OracleResults == OkResults \cup { Failure("request") }
OracleAt(url) == IF url \in DOMAIN oracle THEN oracle[url] ELSE Failure("request")

InitIdem ==
    /\ infile \in InputFiles
    /\ check_only = FALSE
    /\ output_file = TRUE
    /\ browser_automation = FALSE
    /\ start_row \in StartRows
    /\ end_row \in EndRows
    /\ run = 1
    /\ oracle \in [{U1, U2} -> OracleResults]
    /\ Fresh

ResolveByOracle == ResolveReturns(OracleAt(video_url))

\* the second invocation: the first run's output file is the input, every
\* written row is in range
Rerun(check, out) ==
    /\ run = 1
    /\ pc = "exited" /\ exit_status = 0
    /\ ~check_only /\ output_file
    /\ infile' = outlines
    /\ check_only' = check
    /\ output_file' = out
    /\ start_row' = 1
    /\ end_row' = NoEnd
    /\ run' = 2
    /\ pc' = "main"
    /\ mismatches' = 0 /\ matches' = 0 /\ current_row_number' = 0
    /\ fieldnames' = <<>>
    /\ row' = NoRow
    /\ writer' = "unbound" /\ outfile' = "unbound" /\ outlines' = <<>>
    /\ driver' = "unbound"
    /\ playback_status' = Empty
    /\ exit_status' = 0 /\ exception' = ""
    /\ results' = <<>> /\ admitted' = <<>> /\ probed' = <<>>
    /\ closes' = 0 /\ quits' = 0
    /\ cau' = NoCall
    /\ UNCHANGED << browser_automation, oracle >>

NextIdem ==
    \/ Setup
    \/ NextRow
    \/ ResolveByOracle
    \/ WriteRow
    \/ Finish
    \/ MainExit
    \/ \E check \in BOOLEAN, out \in BOOLEAN : Rerun(check, out)

SpecIdem == InitIdem /\ [][NextIdem]_vars

\* ================================================================ claims
Last(seq) == seq[Len(seq)]

\* the row with sequence number n as the reader hands it to the loop
OrigRow(n) == DictRow(fieldnames, infile[n + 1])

\* the current row has been through the resolver
Processed ==
    /\ results # <<>>
    /\ Len(results) = Len(admitted)
    /\ Last(admitted) = current_row_number

ResolverExceptions == { "KeyError", "JSONDecodeError" }
CollaboratorExceptions == ResolverExceptions \cup { "WebDriverException" }

NumOk(seq) == Cardinality({ k \in 1..Len(seq) : seq[k].kind = "ok" })
NumFailed(seq) == Cardinality({ k \in 1..Len(seq) : seq[k].kind # "ok" })

\* stored title or digest differs from the resolved one
Differs(r, res) ==
    \/ Get(r, ColTitle, Empty) # res.title
    \/ Get(r, ColHash, Empty) # hexdigest(res.title \o res.author)

\* C1: in check-only mode the process exits non-zero exactly when the
\* mismatch counter is above 0, with or without an output path; otherwise
\* it exits zero.  (Stated for runs no collaborator's exception ended.)
C1_ExitStatusLaw ==
    (pc = "exited" /\ exception \notin CollaboratorExceptions) =>
        IF check_only THEN (exit_status # 0) = (mismatches > 0)
        ELSE exit_status = 0

\* C2 as stated: in check-only mode the row the loop holds always equals
\* the row as read, whatever the resolver did.
C2_CheckOnlyNeverMutates ==
    (check_only /\ current_row_number >= 1) => row = OrigRow(current_row_number)

\* C2 amended: in check-only mode a row whose resolution succeeded (match or
\* mismatch) equals the row as read; a row whose resolution returned a
\* failure differs from it in Youtube-Title alone, which is "ERROR"; nothing
\* is written.
C2_CheckOnlyMutatesOnlyOnFailure ==
    (check_only /\ current_row_number >= 1) =>
        /\ row = IF Processed /\ Last(results).kind # "ok"
                    /\ exception \notin ResolverExceptions
                 THEN Put(OrigRow(current_row_number), ColTitle, ERROR)
                 ELSE OrigRow(current_row_number)
        /\ outlines = <<>>

C2_Witness ==
    /\ check_only /\ pc = "write"
    /\ Len(results) = 2 /\ mismatches = 1
    /\ results[2].kind = "request"
    /\ row[ColTitle] = ERROR

\* C3: with an end row supplied (0 included), no row numbered outside
\* [start_row, end_row] is handed to the prober or the resolver.
C3_RangeExclusivity ==
    \A n \in Names(admitted) \cup Names(probed) :
        n >= start_row /\ (end_row # NoEnd => n <= end_row[1])

\* C4: whatever the kind of resolution failure, the run goes on: the row's
\* Youtube-Title is "ERROR", nothing else in it changed, neither counter moved.
\* (Stated apart from the body that is not JSON, whose exception only older
\* releases of requests raise outside RequestException.)
C4_FailureIsRowLocal ==
    (Processed /\ Last(results).kind # "ok" /\ exception # "JSONDecodeError") =>
        /\ exception # "KeyError"
        /\ row = Put(OrigRow(current_row_number), ColTitle, ERROR)
        /\ matches + mismatches = NumOk(results)

\* C5: check_and_update_row reports a mismatch exactly when the stored title
\* or the stored digest (the empty string for an absent column) differs from
\* the current one, updates exactly when there is a mismatch and the mode is
\* not check-only, sets the two columns to the current values when it
\* updates, leaves the row alone when it does not, and never changes
\* another column.
C5_Reconcile ==
    cau.called =>
        LET before == cau.row_in
            after == cau.row_out
            stored_title == IF ColTitle \in DOMAIN before THEN before[ColTitle] ELSE Empty
            stored_hash == IF ColHash \in DOMAIN before THEN before[ColHash] ELSE Empty
        IN /\ cau.mismatch_found = (stored_title # cau.title \/ stored_hash # cau.hashed)
           /\ cau.updated = (cau.mismatch_found /\ ~cau.check_mode)
           /\ cau.updated => (after[ColTitle] = cau.title /\ after[ColHash] = cau.hashed)
           /\ ~cau.updated => after = before
           /\ DOMAIN after \subseteq DOMAIN before \cup { ColTitle, ColHash }
           /\ \A c \in DOMAIN before \ { ColTitle, ColHash } :
                 c \in DOMAIN after /\ after[c] = before[c]

C5_Witness ==
    /\ cau.called /\ cau.updated
    /\ ColTitle \notin DOMAIN cau.row_in
    /\ cau.row_out[ColHash] = cau.hashed

\* C6: when the process has ended, every output handle that was opened has
\* been closed once, every browser session that was started has been quit
\* once, and no close was attempted on a handle never opened.
C6_ResourcesReleasedOnce ==
    pc = "exited" =>
        /\ closes = (IF outfile # "unbound" THEN 1 ELSE 0)
        /\ quits = (IF driver # "unbound" THEN 1 ELSE 0)
        /\ exception # "UnboundLocalError"

\* C7: a run whose input is the output of a non-check-only run, with the
\* endpoint answering each URL as before, counts no mismatch.
C7_SecondRunNoMismatch == run = 2 => mismatches = 0

C7_Witness ==
    /\ run = 2 /\ pc = "exited"
    /\ matches = 2
    /\ cau.called /\ cau.title = T3 /\ cau.row_in[ColTitle] = T3

\* the row the k-th admitted row becomes once resolved and reconciled
ExpectedRow(k) ==
    LET r == OrigRow(admitted[k])
        res == results[k]
    IN IF res.kind # "ok" THEN Put(r, ColTitle, ERROR)
       ELSE IF Differs(r, res)
            THEN Put(Put(r, ColTitle, res.title), ColHash,
                     hexdigest(res.title \o res.author))
            ELSE r

\* C8: with an output path and not check-only, the output of the ended run
\* is the header followed by one record per admitted row, in order, with
\* the updated values or the ERROR marker; otherwise no file is opened and
\* nothing is written.  (Stated for runs that neither the browser nor a
\* body that is not JSON ended.)
C8_OutputRows ==
    IF output_file /\ ~check_only
    THEN (pc = "exited" /\ exception \notin { "WebDriverException", "JSONDecodeError" }) =>
            /\ Len(outlines) = 1 + Len(admitted)
            /\ outlines[1] = DictWriteHeader(fieldnames)
            /\ \A k \in 1..Len(admitted) :
                  /\ k <= Len(results)
                  /\ outlines[k + 1] = DictWriteRow(fieldnames, ExpectedRow(k))
    ELSE outfile = "unbound" /\ outlines = <<>>

\* the step resolved the current row and accounted it as the row read from
\* the input and the resolver's result alone determine
AccountedStep ==
    LET res == Last(results')
        differs == Differs(OrigRow(current_row_number), res)
    IN /\ matches' - matches = (IF res.kind = "ok" /\ ~differs THEN 1 ELSE 0)
       /\ mismatches' - mismatches = (IF res.kind = "ok" /\ differs THEN 1 ELSE 0)

\* C9: a probe that returns a status, "OK" or not, leaves the row and both
\* counters as they were and hands the row to the resolver; with probing on,
\* each row is then accounted as the row read and the resolver's result
\* alone determine, whatever the status was.
C9_ProbeAdvisory ==
    [][ /\ (pc = "probe" /\ pc' # "exited") =>
              /\ row' = row
              /\ matches' = matches /\ mismatches' = mismatches
              /\ pc' = "resolve"
        /\ (browser_automation /\ pc = "resolve" /\ pc' = "write") => AccountedStep
      ]_vars

C9_Witness ==
    /\ browser_automation /\ pc = "write"
    /\ playback_status # <<"OK">>
    /\ probed = <<1>>
    /\ matches = 1

\* C10: between rows, matches + mismatches + failed resolutions equals the
\* number of admitted rows processed; each resolved row adds one to exactly
\* one of the three; neither counter ever goes down.
C10_Accounting ==
    [][ /\ matches' + mismatches' + NumFailed(results') = Len(results')
        /\ pc' = "loop" => Len(results') = Len(admitted')
        /\ matches' >= matches /\ mismatches' >= mismatches
        /\ results' # results =>
              /\ Len(results') = Len(results) + 1
              /\ (matches' - matches) + (mismatches' - mismatches)
                    + (NumFailed(results') - NumFailed(results)) = 1
      ]_vars

C10_Witness ==
    /\ pc = "loop"
    /\ Len(admitted) = 2
    /\ matches = 1 /\ NumFailed(results) = 1

====
